---- MODULE Spec2Model ----
(***************************************************************************)
(* A model of the OpenSea harvest pipeline (src/cli/commands/opensea.ts)   *)
(* and of the normalization pass (src/unnamed/part_002 and                 *)
(* src/cli/commands/metadataPrepare.ts).                                   *)
(*                                                                         *)
(* Spec      downloadMetadata: the listing loop, the mergeMap(..., 1)      *)
(*           enrichment, the detached tap writes and the final await.      *)
(* SpecPag   fetchWithPagination over a server list of length L served in  *)
(*           pages of size P.                                              *)
(* SpecRate  one page request of an events / owners / listing fetcher with *)
(*           its 429 branch, under a clock.                                *)
(* SpecPrep  prepareMetadata, in its two versions.                         *)
(* SpecMint  the end of one turn of part_002's loop (dates, custom         *)
(*           attributes, description) on one record.                       *)
(* SpecGif   randomGif drained by a consumer, under weak fairness.         *)
(* SpecUrl   the image fetch of one asset: the URL rewrite inside the      *)
(*           operation that retryWithBackoff repeats.                      *)
(***************************************************************************)
EXTENDS Integers, Sequences, FiniteSets, TLC

(***************************************************************************)
(* Bounds of the model.                                                    *)
(***************************************************************************)
NumAssets == 2
ListPageSize == 1
NumEvents == 2
NumOwners == 1
MaxLen == 4
MaxPageSize == 3
MaxTime == 4
MaxRecords == 3
MaxRetryAfter == 2
MaxStamp == 3
MaxTotal == 21
MaxSegments == 3

EventsPageSize == 1
OwnersPageSize == 1

(***************************************************************************)
(* Program constants.                                                      *)
(***************************************************************************)
MaxAttempts == 5

Assets == 1..NumAssets
NoAsset == 0
NoCursor == 0
NoFile == [absent |-> TRUE]
Subs == {"image", "events", "owners"}

Min(a, b) == IF a < b THEN a ELSE b

(***************************************************************************)
(* What the server answers to one HTTP request.  "200" is a successful     *)
(* answer; "429" is a rate-limited answer; "404" stands for every other    *)
(* 4xx status and "500" for the 5xx statuses, whose JSON body has neither  *)
(* the item list nor a next cursor; "neterr" is a request that fetch()     *)
(* rejects.                                                                *)
(***************************************************************************)
Responses == {"200", "429", "404", "500", "neterr"}

(***************************************************************************)
(* The server side of a cursor-paginated endpoint: the list is served P    *)
(* items a page; the cursor of a page is its index, the first page is      *)
(* requested without cursor, and a page carries a next cursor exactly when *)
(* items remain after it.                                                  *)
(***************************************************************************)
ServerPage(list, P, cursor) ==
    LET from == cursor * P + 1
        to   == Min(Len(list), (cursor + 1) * P)
    IN  [items |-> SubSeq(list, from, to),
         next  |-> IF (cursor + 1) * P < Len(list) THEN cursor + 1 ELSE NoCursor]

AssetList == [i \in 1..NumAssets |-> i]
EventsOf(a) == [i \in 1..NumEvents |-> i]
OwnersOf(a) == [i \in 1..NumOwners |-> i]

(***************************************************************************)
(* retryWithBackoff(operation, maxAttempts, initialDelay): what it does    *)
(* after `failed` attempts of the operation have thrown.                   *)
(***************************************************************************)
retryWithBackoff(failed, maxAttempts) ==
    IF failed >= maxAttempts THEN "throw" ELSE "retry"

(***************************************************************************)
(* The body of a listing / events / owners fetcher after fetch() settled:  *)
(* only status 429 throws; every other answer is parsed as a page.         *)
(***************************************************************************)
fetcher(resp, list, P, cursor) ==
    CASE resp = "200"    -> [throws |-> FALSE, page |-> ServerPage(list, P, cursor)]
      [] resp = "404"    -> [throws |-> FALSE, page |-> [items |-> <<>>, next |-> NoCursor]]
      [] resp = "500"    -> [throws |-> FALSE, page |-> [items |-> <<>>, next |-> NoCursor]]
      [] resp = "429"    -> [throws |-> TRUE,  page |-> [items |-> <<>>, next |-> NoCursor]]
      [] resp = "neterr" -> [throws |-> TRUE,  page |-> [items |-> <<>>, next |-> NoCursor]]

(***************************************************************************)
(* One turn of fetchWithPagination's loop once the fetcher has resolved    *)
(* with `result`: the page is yielded, then the loop ends when the page    *)
(* has no next cursor, and goes on with that cursor otherwise.             *)
(***************************************************************************)
fetchWithPaginationLastDropped(result) ==
    [yields |-> IF result.next = NoCursor THEN <<>> ELSE <<result>>,
     more   |-> result.next # NoCursor,
     next   |-> result.next]

fetchWithPaginationStaleCursor(result) ==
    [yields |-> <<result>>,
     more   |-> result.next # NoCursor,
     next   |-> NoCursor]

fetchWithPagination(result) ==
    [yields |-> <<result>>,
     more   |-> result.next # NoCursor,
     next   |-> result.next]

(***************************************************************************)
(* `for (const x of page.items ?? []) list.push(x)` over the yielded pages.*)
(***************************************************************************)
RECURSIVE PushItems(_, _)
PushItems(list, pages) ==
    IF pages = <<>> THEN list
    ELSE PushItems(list \o Head(pages).items, Tail(pages))

(***************************************************************************)
(* The image operation: a response that is not ok throws.                  *)
(***************************************************************************)
imageFetch(resp) == [throws |-> resp # "200"]

VARIABLES
    mainPc,        \* downloadMetadata: "listing", "await", "returned", "threw";
                   \* "crashed" when the process died of an unhandled rejection,
                   \* "interrupted" when it was stopped from outside
    listCursor,    \* `next` of the listing traversal
    listAttempts,  \* failed attempts of the pending listing request
    buffer,        \* mergeMap's buffer of assets waiting for the one slot
    active,        \* the asset mergeMap is enriching, or NoAsset
    step,          \* the await the enrichment is at: "image", "events", "owners"
    cursor,        \* `next` of the events / owners traversal
    outer,         \* failed attempts counted by fetchWithPagination's retry
    inner,         \* failed attempts counted by the events fetcher's own retry
    assetEvents,   \* the events collected so far
    owners,        \* the owners collected so far
    finished,      \* the promise `finished`: "pending", "resolved", "rejected"
    firstErr,      \* the asset whose error rejected `finished`
    status,        \* per asset: "unseen", "buffered", "enriching", "joined",
                   \*            "failed", "dropped", "ignored"
    subState,      \* per asset and sub-resolution: "none", "ok", "threw"
    joined,        \* per asset: the value mergeMap emitted
    tapPc,         \* per asset: the tap callback: "idle", "image", "json", "done"
    imageFile,     \* per asset: <tokenId>.<ext> exists
    jsonFile,      \* per asset: the content of <tokenId>.json, or NoFile
    \* fetchWithPagination on its own (SpecPag)
    pgList,        \* the server's item list
    pgP,           \* the server's page size
    pgPc,          \* the generator: "idle", "fetch", "done", "threw"
    pgNext,        \* `next`
    pgAttempts,    \* failed attempts of the pending request
    pgPages,       \* the pages yielded so far, each with the cursor it was asked with
    pgLog,         \* the requests answered so far: the cursor sent, whether the
                   \* fetcher resolved, and the next cursor of the response
    \* one page request under a clock (SpecRate)
    rKind,         \* whose request: "listing", "events", "owners", "image"; "idle"
    rPc,           \* "request", "serverWait", "backoff", "resolved", "exhausted"
    rNow,          \* the clock, in seconds
    rWake,         \* the time the retry-after timer fires
    rOuter,        \* failed attempts counted by fetchWithPagination's retry
    rInner,        \* failed attempts counted by the events fetcher's own retry
    rWaited,       \* the 429 answers that made the fetcher wait (retry-after > 0)
    rGeneric,      \* the other failed attempts (fetch() rejected, 429 without wait)
    rEarliest,     \* the earliest time the last 429 answer allows a new attempt
    rIssuedAt,     \* the time the pending request was issued
    rLast,         \* the answer to the last request, or "none"
    \* prepareMetadata (SpecPrep)
    pmVersion,     \* "part_002" or "metadataPrepare"; "idle"
    pmGif,         \* gifIterator is defined (testImages with a giphy key)
    pmInput,       \* the records of inDir, in the order opendir enumerates them
    pmPc,          \* "read", "media", "json", "done", "threw"; "idle"
    pmMeta,        \* metadataJson
    pmI,           \* the loop index i
    pmGifsLeft,    \* the items the placeholder stream has yet to yield
    pmMedia,       \* the media files of outDir
    pmOut,         \* per token id: the JSON this run wrote, or NoFile
    pmPre,         \* the media files outDir held when the run started
    pmDownloaded,  \* the token ids this run drew a placeholder for and fetched
    pmGifTotal,    \* the items the placeholder stream yields from its start
    pmRun,         \* 1 for the first run, 2 for the run repeated over its output
    pmFirst,       \* per token id: the JSON the first run wrote, or NoFile
    pmErr,         \* what the run threw: "none", "sort", "reduce", "gifs", "download"
    \* the end of a turn of part_002's loop on one record (SpecMint)
    dcPc,          \* "oldest", "hunnys", "mint", "done", "threw"; "idle"
    dcHunnys,      \* the option hunnys
    dcMint,        \* the option mintAttribute
    dcIn,          \* the record as parsed from its file
    dcMeta,        \* metadata
    dcOldest,      \* oldestEvent's created_date, or NoDate for undefined
    \* randomGif (SpecGif)
    gTotal,        \* the number of items the search has (pagination.total_count)
    gShift,        \* which items have which kind of URL
    gPc,           \* the generator: "fetch", "scan", "done"; "idle"
    gOffset,       \* offset
    gPage,         \* the items of `gifs` the for loop has yet to visit
    gOffsets,      \* the offsets requested so far
    gYielded,      \* the URLs yielded so far
    gConsumer,     \* the consumer: "drawing", or what onNext made of `done`
    \* the image fetch of one asset (SpecUrl)
    uPc,           \* "rewrite", "fetch", "resolved", "threw"; "idle"
    uUrl,          \* imageUrl
    uFailed,       \* the attempts that have thrown
    uLog           \* the URLs requested so far

hvars == <<mainPc, listCursor, listAttempts, buffer, active, step, cursor, outer,
           inner, assetEvents, owners, finished, firstErr, status, subState, joined,
           tapPc, imageFile, jsonFile>>

pgvars == <<pgList, pgP, pgPc, pgNext, pgAttempts, pgPages, pgLog>>

rvars == <<rKind, rPc, rNow, rWake, rOuter, rInner, rWaited, rGeneric, rEarliest,
           rIssuedAt, rLast>>

pmvars == <<pmVersion, pmGif, pmInput, pmPc, pmMeta, pmI, pmGifsLeft, pmMedia, pmOut,
            pmPre, pmDownloaded, pmGifTotal, pmRun, pmFirst, pmErr>>

dcvars == <<dcPc, dcHunnys, dcMint, dcIn, dcMeta, dcOldest>>

gvars == <<gTotal, gShift, gPc, gOffset, gPage, gOffsets, gYielded, gConsumer>>

uvars == <<uPc, uUrl, uFailed, uLog>>

vars == <<hvars, pgvars, rvars, pmvars, dcvars, gvars, uvars>>

HOnly == UNCHANGED <<pgvars, rvars, pmvars, dcvars, gvars, uvars>>
PgOnly == UNCHANGED <<hvars, rvars, pmvars, dcvars, gvars, uvars>>
ROnly == UNCHANGED <<hvars, pgvars, pmvars, dcvars, gvars, uvars>>
PmOnly == UNCHANGED <<hvars, pgvars, rvars, dcvars, gvars, uvars>>
DcOnly == UNCHANGED <<hvars, pgvars, rvars, pmvars, gvars, uvars>>
GOnly == UNCHANGED <<hvars, pgvars, rvars, pmvars, dcvars, uvars>>
UOnly == UNCHANGED <<hvars, pgvars, rvars, pmvars, dcvars, gvars>>

HInit ==
    /\ mainPc = "listing"
    /\ listCursor = NoCursor
    /\ listAttempts = 0
    /\ buffer = <<>>
    /\ active = NoAsset
    /\ step = "none"
    /\ cursor = NoCursor
    /\ outer = 0
    /\ inner = 0
    /\ assetEvents = <<>>
    /\ owners = <<>>
    /\ finished = "pending"
    /\ firstErr = NoAsset
    /\ status = [a \in Assets |-> "unseen"]
    /\ subState = [a \in Assets |-> [s \in Subs |-> "none"]]
    /\ joined = [a \in Assets |-> NoFile]
    /\ tapPc = [a \in Assets |-> "idle"]
    /\ imageFile = [a \in Assets |-> FALSE]
    /\ jsonFile = [a \in Assets |-> NoFile]

(***************************************************************************)
(* The enrichment's counters as a fresh sub-resolution starts.             *)
(***************************************************************************)
ResetSub ==
    /\ cursor' = NoCursor
    /\ outer' = 0
    /\ inner' = 0

(***************************************************************************)
(* incomingAssets.next(asset) for the assets of one listing page, in       *)
(* order.  A closed subscription ignores them; mergeMap(..., 1) starts the *)
(* first one when its slot is free and buffers the others.                 *)
(***************************************************************************)
PushAssets(as) ==
    IF finished # "pending"
    THEN /\ status' = [a \in Assets |->
                         IF \E i \in 1..Len(as) : as[i] = a THEN "ignored" ELSE status[a]]
         /\ UNCHANGED <<buffer, active, step, cursor, outer, inner, assetEvents, owners>>
    ELSE IF as = <<>>
    THEN UNCHANGED <<status, buffer, active, step, cursor, outer, inner, assetEvents, owners>>
    ELSE IF active = NoAsset
    THEN /\ active' = Head(as)
         /\ buffer' = Tail(as)
         /\ status' = [a \in Assets |->
                         IF a = Head(as) THEN "enriching"
                         ELSE IF \E i \in 2..Len(as) : as[i] = a THEN "buffered"
                         ELSE status[a]]
         /\ step' = "image"
         /\ ResetSub
         /\ assetEvents' = <<>>
         /\ owners' = <<>>
    ELSE /\ buffer' = buffer \o as
         /\ status' = [a \in Assets |->
                         IF \E i \in 1..Len(as) : as[i] = a THEN "buffered" ELSE status[a]]
         /\ UNCHANGED <<active, step, cursor, outer, inner, assetEvents, owners>>

(***************************************************************************)
(* The listing loop of downloadMetadata: one answer to the pending listing *)
(* request.  A page is pushed asset by asset; after the page without next  *)
(* cursor the loop ends and incomingAssets.complete() is called, which     *)
(* completes the pipeline at once when mergeMap has nothing left.  When    *)
(* the retries are used up the for-await throws out of downloadMetadata.   *)
(***************************************************************************)
ListingResponse(resp) ==
    /\ mainPc = "listing"
    /\ HOnly
    /\ LET r == fetcher(resp, AssetList, ListPageSize, listCursor)
       IN  IF r.throws
           THEN /\ listAttempts' = listAttempts + 1
                /\ mainPc' = IF retryWithBackoff(listAttempts + 1, MaxAttempts) = "throw"
                             THEN "threw" ELSE "listing"
                /\ UNCHANGED <<listCursor, buffer, active, step, cursor, outer, inner,
                               assetEvents, owners, finished, status>>
           ELSE /\ PushAssets(PushItems(<<>>, fetchWithPagination(r.page).yields))
                /\ listAttempts' = 0
                /\ IF fetchWithPagination(r.page).more
                   THEN /\ listCursor' = fetchWithPagination(r.page).next
                        /\ UNCHANGED <<mainPc, finished>>
                   ELSE /\ mainPc' = "await"
                        /\ finished' = IF finished = "pending" /\ active' = NoAsset
                                       THEN "resolved" ELSE finished
                        /\ UNCHANGED listCursor
    /\ UNCHANGED <<firstErr, subState, joined, tapPc, imageFile, jsonFile>>

(***************************************************************************)
(* try { await finished } catch (err) { console.error(err) }               *)
(***************************************************************************)
AwaitFinished ==
    /\ mainPc = "await"
    /\ HOnly
    /\ finished # "pending"
    /\ mainPc' = "returned"
    /\ UNCHANGED <<listCursor, listAttempts, buffer, active, step, cursor, outer,
                   inner, assetEvents, owners, finished, firstErr, status, subState,
                   joined, tapPc, imageFile, jsonFile>>

(***************************************************************************)
(* `finished` is rejected while downloadMetadata is still in its listing   *)
(* loop, so before `await finished` gives it a handler: the rejection is   *)
(* unhandled, and a runtime that throws on unhandled rejections ends the   *)
(* process there (one that only warns goes on with the other actions).     *)
(***************************************************************************)
Alive == mainPc \notin {"crashed", "interrupted"}

UnhandledRejection ==
    /\ mainPc = "listing"
    /\ HOnly
    /\ finished = "rejected"
    /\ mainPc' = "crashed"
    /\ UNCHANGED <<listCursor, listAttempts, buffer, active, step, cursor, outer,
                   inner, assetEvents, owners, finished, firstErr, status, subState,
                   joined, tapPc, imageFile, jsonFile>>

(***************************************************************************)
(* The promise of the mergeMap callback rejects: mergeMap errors, the      *)
(* subscriber's error() rejects `finished`, the subscription ends and the  *)
(* buffered assets are never projected.                                    *)
(***************************************************************************)
Reject(a, th) ==
    /\ finished' = "rejected"
    /\ firstErr' = a
    /\ subState' = [subState EXCEPT ![a] = th]
    /\ status' = [x \in Assets |->
                    IF x = a THEN "failed"
                    ELSE IF status[x] = "buffered" THEN "dropped" ELSE status[x]]
    /\ active' = NoAsset
    /\ buffer' = <<>>
    /\ step' = "none"
    /\ ResetSub
    /\ assetEvents' = <<>>
    /\ owners' = <<>>
    /\ UNCHANGED <<mainPc, listCursor, listAttempts, joined, tapPc, imageFile, jsonFile>>

(***************************************************************************)
(* The promise of the mergeMap callback resolves: the value is emitted,    *)
(* tap calls its async callback (which runs up to its first await and is   *)
(* not waited for), the inner observable completes, and mergeMap projects  *)
(* the next buffered asset or, after complete(), completes the pipeline.   *)
(***************************************************************************)
Emit(a, ev, ow, th) ==
    /\ joined' = [joined EXCEPT ![a] = [events |-> ev, owners |-> ow]]
    /\ subState' = [subState EXCEPT ![a] = th]
    /\ tapPc' = [tapPc EXCEPT ![a] = "image"]
    /\ IF buffer # <<>>
       THEN /\ active' = Head(buffer)
            /\ buffer' = Tail(buffer)
            /\ status' = [status EXCEPT ![a] = "joined", ![Head(buffer)] = "enriching"]
            /\ step' = "image"
            /\ UNCHANGED finished
       ELSE /\ active' = NoAsset
            /\ buffer' = <<>>
            /\ status' = [status EXCEPT ![a] = "joined"]
            /\ step' = "none"
            /\ finished' = IF mainPc = "await" THEN "resolved" ELSE finished
    /\ ResetSub
    /\ assetEvents' = <<>>
    /\ owners' = <<>>
    /\ UNCHANGED <<mainPc, listCursor, listAttempts, firstErr, imageFile, jsonFile>>

awaitSubSwallowed(sub, verdict) ==
    IF verdict = "throw" /\ sub = "image" THEN "reject" ELSE "continue"

(***************************************************************************)
(* `await` of one sub-resolution inside the object literal the callback    *)
(* returns: a sub-resolution that threw rejects the callback's promise.    *)
(***************************************************************************)
awaitSub(sub, verdict) ==
    IF verdict = "throw" THEN "reject" ELSE "continue"

(***************************************************************************)
(* The sub-resolution `sub` of the active asset has ended, with the lists  *)
(* ev and ow collected: the callback goes on to the next await of the      *)
(* literal (image, then events, then owners), returns, or rejects.         *)
(***************************************************************************)
SubEnds(sub, verdict, ev, ow) ==
    LET th == [subState[active] EXCEPT ![sub] = IF verdict = "throw" THEN "threw" ELSE "ok"]
    IN  IF awaitSub(sub, verdict) = "reject"
        THEN Reject(active, th)
        ELSE IF sub = "owners"
        THEN Emit(active, ev, ow, th)
        ELSE /\ step' = IF sub = "image" THEN "events" ELSE "owners"
             /\ ResetSub
             /\ assetEvents' = ev
             /\ owners' = ow
             /\ subState' = [subState EXCEPT ![active] = th]
             /\ UNCHANGED <<mainPc, listCursor, listAttempts, buffer, active, finished,
                            firstErr, status, joined, tapPc, imageFile, jsonFile>>

(***************************************************************************)
(* A failed attempt that retryWithBackoff repeats.                         *)
(***************************************************************************)
Retry(o, i) ==
    /\ outer' = o
    /\ inner' = i
    /\ UNCHANGED <<mainPc, listCursor, listAttempts, buffer, active, step, cursor,
                   assetEvents, owners, finished, firstErr, status, subState, joined,
                   tapPc, imageFile, jsonFile>>

(***************************************************************************)
(* The image sub-resolution: one answer to the image request.              *)
(***************************************************************************)
ImageResponse(resp) ==
    /\ active # NoAsset
    /\ Alive
    /\ HOnly
    /\ step = "image"
    /\ IF imageFetch(resp).throws
       THEN IF retryWithBackoff(outer + 1, MaxAttempts) = "retry"
            THEN Retry(outer + 1, 0)
            ELSE SubEnds("image", "throw", assetEvents, owners)
       ELSE SubEnds("image", "ok", assetEvents, owners)

(***************************************************************************)
(* The events sub-resolution: one answer to the pending events request.    *)
(* The fetcher retries by itself, and fetchWithPagination retries the      *)
(* fetcher.                                                                *)
(***************************************************************************)
EventsResponse(resp) ==
    /\ active # NoAsset
    /\ Alive
    /\ HOnly
    /\ step = "events"
    /\ LET r == fetcher(resp, EventsOf(active), EventsPageSize, cursor)
       IN  IF r.throws
           THEN IF retryWithBackoff(inner + 1, MaxAttempts) = "retry"
                THEN Retry(outer, inner + 1)
                ELSE IF retryWithBackoff(outer + 1, MaxAttempts) = "retry"
                THEN Retry(outer + 1, 0)
                ELSE SubEnds("events", "throw", assetEvents, owners)
           ELSE IF fetchWithPagination(r.page).more
           THEN /\ cursor' = fetchWithPagination(r.page).next
                /\ assetEvents' = PushItems(assetEvents, fetchWithPagination(r.page).yields)
                /\ outer' = 0
                /\ inner' = 0
                /\ UNCHANGED <<mainPc, listCursor, listAttempts, buffer, active, step,
                               owners, finished, firstErr, status, subState, joined,
                               tapPc, imageFile, jsonFile>>
           ELSE SubEnds("events", "ok",
                        PushItems(assetEvents, fetchWithPagination(r.page).yields), owners)

(***************************************************************************)
(* The owners sub-resolution: one answer to the pending owners request.    *)
(***************************************************************************)
OwnersResponse(resp) ==
    /\ active # NoAsset
    /\ Alive
    /\ HOnly
    /\ step = "owners"
    /\ LET r == fetcher(resp, OwnersOf(active), OwnersPageSize, cursor)
       IN  IF r.throws
           THEN IF retryWithBackoff(outer + 1, MaxAttempts) = "retry"
                THEN Retry(outer + 1, 0)
                ELSE SubEnds("owners", "throw", assetEvents, owners)
           ELSE IF fetchWithPagination(r.page).more
           THEN /\ cursor' = fetchWithPagination(r.page).next
                /\ owners' = PushItems(owners, fetchWithPagination(r.page).yields)
                /\ outer' = 0
                /\ inner' = 0
                /\ UNCHANGED <<mainPc, listCursor, listAttempts, buffer, active, step,
                               assetEvents, finished, firstErr, status, subState, joined,
                               tapPc, imageFile, jsonFile>>
           ELSE SubEnds("owners", "ok", assetEvents,
                        PushItems(owners, fetchWithPagination(r.page).yields))

(***************************************************************************)
(* The tap callback of an emitted asset, up to the image file written.     *)
(***************************************************************************)
TapWriteImage(a) ==
    /\ Alive
    /\ HOnly
    /\ tapPc[a] = "image"
    /\ imageFile' = [imageFile EXCEPT ![a] = TRUE]
    /\ tapPc' = [tapPc EXCEPT ![a] = "json"]
    /\ UNCHANGED <<mainPc, listCursor, listAttempts, buffer, active, step, cursor,
                   outer, inner, assetEvents, owners, finished, firstErr, status,
                   subState, joined, jsonFile>>

(***************************************************************************)
(* The tap callback, from the image file written to the JSON file written. *)
(***************************************************************************)
TapWriteJson(a) ==
    /\ Alive
    /\ HOnly
    /\ tapPc[a] = "json"
    /\ jsonFile' = [jsonFile EXCEPT ![a] = joined[a]]
    /\ tapPc' = [tapPc EXCEPT ![a] = "done"]
    /\ UNCHANGED <<mainPc, listCursor, listAttempts, buffer, active, step, cursor,
                   outer, inner, assetEvents, owners, finished, firstErr, status,
                   subState, joined, imageFile>>

(***************************************************************************)
(* The run is interrupted (the process is killed) at any point at which it *)
(* still has something to do: nothing it had pending happens any more.    *)
(***************************************************************************)
Interrupt ==
    /\ Alive
    /\ HOnly
    /\ \/ mainPc \in {"listing", "await"}
       \/ active # NoAsset
       \/ \E a \in Assets : tapPc[a] \in {"image", "json"}
    /\ mainPc' = "interrupted"
    /\ UNCHANGED <<listCursor, listAttempts, buffer, active, step, cursor, outer,
                   inner, assetEvents, owners, finished, firstErr, status, subState,
                   joined, tapPc, imageFile, jsonFile>>

HNext ==
    \/ \E resp \in Responses : ListingResponse(resp)
    \/ AwaitFinished
    \/ UnhandledRejection
    \/ \E resp \in Responses : ImageResponse(resp)
    \/ \E resp \in Responses : EventsResponse(resp)
    \/ \E resp \in Responses : OwnersResponse(resp)
    \/ \E a \in Assets : TapWriteImage(a)
    \/ \E a \in Assets : TapWriteJson(a)
    \/ Interrupt

(***************************************************************************)
(* Vocabulary of the harvest claims.                                       *)
(***************************************************************************)
Committed(a) == imageFile[a] /\ jsonFile[a] # NoFile
Yielded(a) == status[a] # "unseen"
NoSubThrew(a) == \A s \in Subs : subState[a][s] # "threw"
CallCompleted == mainPc \in {"returned", "threw"}
InFlight(a) == a = active \/ tapPc[a] \in {"image", "json"}
Quiescent ==
    /\ CallCompleted
    /\ active = NoAsset
    /\ \A a \in Assets : tapPc[a] \in {"idle", "done"}
Outcome ==
    CASE mainPc = "returned" -> <<"returned">>
      [] mainPc = "threw"    -> <<"threw", "listing">>
      [] OTHER               -> <<"running">>
Launched(a) ==
    IF a # active THEN {}
    ELSE CASE step = "image"  -> {"image"}
           [] step = "events" -> {"image", "events"}
           [] OTHER           -> {"image", "events", "owners"}

(***************************************************************************)
(* C1: when the enrichment of one asset fails, every other asset the       *)
(* listing yielded and none of whose sub-fetches failed is committed once  *)
(* the run has come to rest, the assets discovered after the failing one   *)
(* included.                                                               *)
(***************************************************************************)
C1_SiblingsCommitted ==
    Quiescent => \A a \in Assets : (Yielded(a) /\ NoSubThrew(a)) => Committed(a)

(***************************************************************************)
(* C2: if the enrichment of an asset failed, the completed call has thrown *)
(* the first enrichment error; it has not returned normally.               *)
(***************************************************************************)
C2_FailureSurfaced ==
    (CallCompleted /\ firstErr # NoAsset) => Outcome = <<"threw", "enrichment", firstErr>>

(***************************************************************************)
(* C3: when downloadMetadata has returned or thrown, every asset pushed    *)
(* into the pipeline has both files written or has failed.                 *)
(***************************************************************************)
C3_SettledAtCompletion ==
    CallCompleted => \A a \in Assets : Yielded(a) => (Committed(a) \/ status[a] = "failed")

(***************************************************************************)
(* C4: at most one asset is in flight, from its first sub-fetch to the end *)
(* of its commit write.                                                    *)
(***************************************************************************)
C4_OneInFlight == Cardinality({a \in Assets : InFlight(a)}) <= 1

(***************************************************************************)
(* C5: the three sub-resolutions of an asset are launched without waiting  *)
(* on each other: while one of them is launched, all three are.            *)
(***************************************************************************)
C5_LaunchedTogether ==
    \A a \in Assets : Launched(a) # {} => Launched(a) = Subs

(***************************************************************************)
(* C6: a JSON file that is written holds the items of every page of the    *)
(* events and of the owners of its asset.                                  *)
(***************************************************************************)
C6_CompleteSubResources ==
    \A a \in Assets :
        jsonFile[a] # NoFile =>
            /\ jsonFile[a].events = EventsOf(a)
            /\ jsonFile[a].owners = OwnersOf(a)

(***************************************************************************)
(* C7: an asset one of whose sub-resolutions threw has failed as a whole   *)
(* and has no file; an asset that has a file, or whose tap callback runs,  *)
(* has had its three sub-resolutions return.                               *)
(***************************************************************************)
C7_NoPartialRecord ==
    \A a \in Assets :
        /\ ~NoSubThrew(a) =>
              /\ status[a] = "failed"
              /\ tapPc[a] = "idle"
              /\ ~imageFile[a]
              /\ jsonFile[a] = NoFile
        /\ (imageFile[a] \/ jsonFile[a] # NoFile \/ tapPc[a] # "idle") =>
              \A s \in Subs : subState[a][s] = "ok"

C7_Witness ==
    \E a, b \in Assets :
        /\ subState[a]["owners"] = "threw"
        /\ status[a] = "failed"
        /\ Committed(b)
        /\ Quiescent

(***************************************************************************)
(* fetchWithPagination on its own, with a fetcher that resolves with the   *)
(* server's page or rejects.                                               *)
(***************************************************************************)
PgIdle ==
    /\ pgList = <<>>
    /\ pgP = 1
    /\ pgPc = "idle"
    /\ pgNext = NoCursor
    /\ pgAttempts = 0
    /\ pgPages = <<>>
    /\ pgLog = <<>>

PgInit ==
    /\ pgList \in {[i \in 1..L |-> i] : L \in 0..MaxLen}
    /\ pgP \in 1..MaxPageSize
    /\ pgPc = "fetch"
    /\ pgNext = NoCursor
    /\ pgAttempts = 0
    /\ pgPages = <<>>
    /\ pgLog = <<>>

(***************************************************************************)
(* The fetcher resolves: `yield result`, then the test of result.next.     *)
(***************************************************************************)
PgResolve ==
    /\ pgPc = "fetch"
    /\ PgOnly
    /\ LET result == ServerPage(pgList, pgP, pgNext)
           turn   == fetchWithPagination(result)
       IN  /\ pgPages' = pgPages \o [i \in 1..Len(turn.yields) |->
                                       [cursor |-> pgNext, items |-> turn.yields[i].items]]
           /\ pgPc' = IF turn.more THEN "fetch" ELSE "done"
           /\ pgNext' = IF turn.more THEN turn.next ELSE pgNext
           /\ pgLog' = Append(pgLog, [cursor |-> pgNext, ok |-> TRUE, next |-> result.next])
    /\ pgAttempts' = 0
    /\ UNCHANGED <<pgList, pgP>>

(***************************************************************************)
(* The fetcher rejects: retryWithBackoff(() => fetcher(next), 5, 250)      *)
(* repeats the request or throws out of the generator.                     *)
(***************************************************************************)
PgReject ==
    /\ pgPc = "fetch"
    /\ PgOnly
    /\ pgAttempts' = pgAttempts + 1
    /\ pgPc' = IF retryWithBackoff(pgAttempts + 1, MaxAttempts) = "throw"
               THEN "threw" ELSE "fetch"
    /\ pgLog' = Append(pgLog, [cursor |-> pgNext, ok |-> FALSE, next |-> NoCursor])
    /\ UNCHANGED <<pgList, pgP, pgNext, pgPages>>

PgNext ==
    \/ PgResolve
    \/ PgReject

Ceil(n, d) == (n + d - 1) \div d

RECURSIVE Concat(_)
Concat(pages) ==
    IF pages = <<>> THEN <<>> ELSE Head(pages).items \o Concat(Tail(pages))

PagesInOrder == \A i \in 1..Len(pgPages) : pgPages[i].cursor = i - 1

(***************************************************************************)
(* C8 as stated: a traversal that ended has yielded exactly ceil(L/P)      *)
(* pages, L = 0 included, each page once and in order, and their items     *)
(* concatenated are the server's list.                                     *)
(***************************************************************************)
C8_CeilPages ==
    pgPc = "done" =>
        /\ Len(pgPages) = Ceil(Len(pgList), pgP)
        /\ PagesInOrder
        /\ Concat(pgPages) = pgList

(***************************************************************************)
(* C8 amended: a traversal that ended has yielded exactly ceil(L/P) pages  *)
(* when L > 0 and exactly one page, without items, when L = 0; each page   *)
(* once and in order; their items concatenated are the server's list.      *)
(***************************************************************************)
C8_PagesYielded ==
    pgPc = "done" =>
        /\ Len(pgPages) = IF pgList = <<>> THEN 1 ELSE Ceil(Len(pgList), pgP)
        /\ PagesInOrder
        /\ Concat(pgPages) = pgList

C8_Witness ==
    /\ pgPc = "done"
    /\ Len(pgList) = 4
    /\ pgP = 3
    /\ Len(pgPages) = 2

(***************************************************************************)
(* One page request of fetchWithPagination under a clock: the request, the *)
(* 429 branch of the fetcher with its retry-after timer, and the retries.  *)
(* The events fetcher wraps its request in a retryWithBackoff of its own.  *)
(***************************************************************************)
RIdle ==
    /\ rKind = "idle"
    /\ rPc = "idle"
    /\ rNow = 0
    /\ rWake = 0
    /\ rOuter = 0
    /\ rInner = 0
    /\ rWaited = 0
    /\ rGeneric = 0
    /\ rEarliest = 0
    /\ rIssuedAt = 0
    /\ rLast = "none"

RInit ==
    /\ rKind \in {"listing", "events", "owners", "image"}
    /\ rPc = "request"
    /\ rNow = 0
    /\ rWake = 0
    /\ rOuter = 0
    /\ rInner = 0
    /\ rWaited = 0
    /\ rGeneric = 0
    /\ rEarliest = 0
    /\ rIssuedAt = 0
    /\ rLast = "none"

(***************************************************************************)
(* The attempt has thrown: the retry that counts it repeats the request    *)
(* after its delay, or gives up.                                           *)
(***************************************************************************)
RThrow ==
    IF rKind = "events" /\ retryWithBackoff(rInner + 1, MaxAttempts) = "retry"
    THEN /\ rInner' = rInner + 1
         /\ rPc' = "backoff"
         /\ UNCHANGED rOuter
    ELSE /\ rInner' = 0
         /\ rOuter' = rOuter + 1
         /\ rPc' = IF retryWithBackoff(rOuter + 1, MaxAttempts) = "retry"
                   THEN "backoff" ELSE "exhausted"

(***************************************************************************)
(* The server answers the pending request; a 429 answer carries            *)
(* retry-after: n.  The fetchers have a branch for 429 and parse every     *)
(* other answer; the image operation throws on every answer that is not    *)
(* ok.                                                                     *)
(***************************************************************************)
RAnswer(resp, n) ==
    /\ rPc = "request"
    /\ ROnly
    /\ rLast' = resp
    /\ CASE rKind = "image" /\ ~imageFetch(resp).throws ->
              /\ rPc' = "resolved"
              /\ UNCHANGED <<rWake, rOuter, rInner, rWaited, rGeneric, rEarliest>>
         [] rKind = "image" /\ imageFetch(resp).throws ->
              /\ rGeneric' = rGeneric + 1
              /\ RThrow
              /\ UNCHANGED <<rWake, rWaited, rEarliest>>
         [] rKind # "image" /\ resp \in {"200", "404", "500"} ->
              /\ rPc' = "resolved"
              /\ UNCHANGED <<rWake, rOuter, rInner, rWaited, rGeneric, rEarliest>>
         [] rKind # "image" /\ resp = "neterr" ->
              /\ rGeneric' = rGeneric + 1
              /\ RThrow
              /\ UNCHANGED <<rWake, rWaited, rEarliest>>
         [] rKind # "image" /\ resp = "429" ->
              /\ rEarliest' = rNow + n
              /\ IF n > 0
                 THEN /\ rPc' = "serverWait"
                      /\ rWake' = rNow + n
                      /\ rWaited' = rWaited + 1
                      /\ UNCHANGED <<rOuter, rInner, rGeneric>>
                 ELSE /\ RThrow
                      /\ rGeneric' = rGeneric + 1
                      /\ UNCHANGED <<rWake, rWaited>>
    /\ UNCHANGED <<rKind, rNow, rIssuedAt>>

(***************************************************************************)
(* The retry-after timer fires: throw new Error("Rate limited").           *)
(***************************************************************************)
RWaitOver ==
    /\ rPc = "serverWait"
    /\ rNow >= rWake
    /\ ROnly
    /\ RThrow
    /\ UNCHANGED <<rKind, rNow, rWake, rWaited, rGeneric, rEarliest, rIssuedAt, rLast>>

(***************************************************************************)
(* The delay of retryWithBackoff is over: the operation is called again.   *)
(***************************************************************************)
RBackoffOver ==
    /\ rPc = "backoff"
    /\ ROnly
    /\ rPc' = "request"
    /\ rIssuedAt' = rNow
    /\ UNCHANGED <<rKind, rNow, rWake, rOuter, rInner, rWaited, rGeneric, rEarliest,
                   rLast>>

(***************************************************************************)
(* A second passes.                                                        *)
(***************************************************************************)
RTick ==
    /\ rPc \in {"request", "serverWait", "backoff"}
    /\ rNow < MaxTime
    /\ ROnly
    /\ rNow' = rNow + 1
    /\ UNCHANGED <<rKind, rPc, rWake, rOuter, rInner, rWaited, rGeneric, rEarliest,
                   rIssuedAt, rLast>>

(***************************************************************************)
(* C9, first half: a request answered 429 with retry-after n > 0 is not    *)
(* attempted again before n seconds have passed.                           *)
(***************************************************************************)
C9_ServerWaitRespected == rPc = "request" => rIssuedAt >= rEarliest

(***************************************************************************)
(* C9: a request answered 429 with retry-after n > 0 is not attempted      *)
(* again before n seconds have passed, and the server-directed waits use   *)
(* up no attempt: the retries are exhausted only by maxAttempts attempts   *)
(* that failed otherwise.                                                  *)
(***************************************************************************)
C9_RateLimitCostsNoAttempt ==
    /\ C9_ServerWaitRespected
    /\ rPc = "exhausted" => rGeneric >= MaxAttempts

(***************************************************************************)
(* prepareMetadata.  A record of inDir is <file>.json: its events (absent  *)
(* in a file without the field) and its owners, each a list of             *)
(* created_date values, and the image it names.                            *)
(***************************************************************************)
Dated(present, dates) == [present |-> present, dates |-> dates]

Shapes ==
    {[events |-> Dated(TRUE, <<2, 1>>), owners |-> <<1>>],
     [events |-> Dated(TRUE, <<>>),     owners |-> <<>>],
     [events |-> Dated(FALSE, <<>>),    owners |-> <<2>>]}

Injections(n) == {f \in [1..n -> 1..n] : \A i, j \in 1..n : i # j => f[i] # f[j]}

InputRecord(file, shape) ==
    [file   |-> file,
     id     |-> 0,
     image  |-> [name |-> file, ext |-> "png"],
     events |-> shape.events,
     owners |-> shape.owners]

Reorderings(recs) ==
    {[i \in 1..Len(recs) |-> recs[f[i]]] : f \in Injections(Len(recs))}

(***************************************************************************)
(* oldestOwnerReducer, and list.reduce(oldestOwnerReducer) over a list     *)
(* that is not empty (reduce without initial value throws on an empty      *)
(* list).                                                                  *)
(***************************************************************************)
oldestOwnerReducer(prev, current) == IF prev < current THEN prev ELSE current

RECURSIVE reduceFrom(_, _)
reduceFrom(prev, dates) ==
    IF dates = <<>> THEN prev
    ELSE reduceFrom(oldestOwnerReducer(prev, Head(dates)), Tail(dates))

reduce(dates) == reduceFrom(Head(dates), Tail(dates))

(***************************************************************************)
(* part_002: filesToParse.sort by the number in the file name.             *)
(***************************************************************************)
SortedByFileName(recs) ==
    CHOOSE s \in Reorderings(recs) :
        \A i, j \in 1..Len(s) : i < j => s[i].file < s[j].file

(***************************************************************************)
(* metadataPrepare.ts: metadataJson.sort by the oldest owner's date.  The  *)
(* comparator never answers 0, so the order of records of equal date is    *)
(* the engine's: any order is possible.  It throws when it is called on a  *)
(* record without owners, and it is called when there are two records.     *)
(***************************************************************************)
SortByOwnerThrows(recs) ==
    Len(recs) >= 2 /\ \E i \in 1..Len(recs) : recs[i].owners = <<>>

SortedByOldestOwner(recs) ==
    {s \in Reorderings(recs) :
        \A i, j \in 1..Len(s) :
            i < j => reduce(s[i].owners) <= reduce(s[j].owners)}

tokenIdZeroBased(i) == i

(***************************************************************************)
(* const tokenId = i + 1, also the number in `${i + 1}.gif`.               *)
(***************************************************************************)
tokenId(i) == i + 1

(***************************************************************************)
(* Where the run looks for the media file of a token, and where it writes  *)
(* it.                                                                     *)
(***************************************************************************)
WriteDir(version) == IF version = "part_002" THEN "assets" ELSE "root"
StatDirOfWrite(version) == WriteDir(version)
StatDir(version) == "root"

GifFile(version, n) == [dir |-> WriteDir(version), name |-> n, ext |-> "gif"]

PmIdle ==
    /\ pmVersion = "idle"
    /\ pmGif = FALSE
    /\ pmInput = <<>>
    /\ pmPc = "idle"
    /\ pmMeta = <<>>
    /\ pmI = 0
    /\ pmGifsLeft = 0
    /\ pmMedia = {}
    /\ pmOut = [t \in 0..MaxRecords |-> NoFile]
    /\ pmPre = {}
    /\ pmDownloaded = {}
    /\ pmGifTotal = 0
    /\ pmRun = 0
    /\ pmFirst = [t \in 0..MaxRecords |-> NoFile]
    /\ pmErr = "none"

(***************************************************************************)
(* A run starts on any input directory of up to MaxRecords records, in any *)
(* enumeration order, and, with media substitution, on an output directory *)
(* in which an earlier run left the media of the first k tokens: a run of  *)
(* the same version (in the directory it writes to) or, for part_002, a    *)
(* run of the legacy version (in outDir itself, where part_002 looks).     *)
(***************************************************************************)
PmInit ==
    /\ pmVersion \in {"part_002", "metadataPrepare"}
    /\ \E n \in 0..MaxRecords :
         /\ \E order \in Injections(n), shape \in [1..n -> Shapes] :
              pmInput = [i \in 1..n |-> InputRecord(order[i], shape[order[i]])]
         /\ \/ /\ pmGif = FALSE
               /\ pmGifsLeft = 0
               /\ pmMedia = {}
            \/ /\ pmGif = TRUE
               /\ pmGifsLeft \in 0..n
               /\ \E k \in 0..n, d \in {StatDir(pmVersion), WriteDir(pmVersion)} :
                    pmMedia = {[dir |-> d, name |-> t, ext |-> "gif"] : t \in 1..k}
    /\ pmPc = "read"
    /\ pmMeta = <<>>
    /\ pmI = 0
    /\ pmOut = [t \in 0..MaxRecords |-> NoFile]
    /\ pmPre = pmMedia
    /\ pmDownloaded = {}
    /\ pmGifTotal = pmGifsLeft
    /\ pmRun = 1
    /\ pmFirst = [t \in 0..MaxRecords |-> NoFile]
    /\ pmErr = "none"

(***************************************************************************)
(* The directory is read, the files are parsed and put in order.  Sorting  *)
(* is a function of the list: a second run over the same input puts the    *)
(* records in the order the first run put them in.                         *)
(***************************************************************************)
SameOrder(s, t) == \A i \in 1..Len(s) : s[i].file = t[i].file

PmRead ==
    /\ pmPc = "read"
    /\ PmOnly
    /\ IF pmVersion = "part_002"
       THEN /\ pmMeta' = SortedByFileName(pmInput)
            /\ pmPc' = IF pmInput = <<>> THEN "done" ELSE "media"
            /\ UNCHANGED pmErr
       ELSE IF SortByOwnerThrows(pmInput)
       THEN /\ pmPc' = "threw"
            /\ pmErr' = "sort"
            /\ UNCHANGED pmMeta
       ELSE /\ pmMeta' \in SortedByOldestOwner(pmInput)
            /\ pmRun = 2 => SameOrder(pmMeta', pmMeta)
            /\ pmPc' = IF pmInput = <<>> THEN "done" ELSE "media"
            /\ UNCHANGED pmErr
    /\ UNCHANGED <<pmVersion, pmGif, pmInput, pmI, pmGifsLeft, pmMedia, pmOut, pmPre,
                   pmDownloaded, pmGifTotal, pmRun, pmFirst>>

(***************************************************************************)
(* One turn of the loop up to the media of token i + 1.  part_002 first    *)
(* reduces the events, which throws on an empty list.  With gifIterator a  *)
(* media file that does not exist yet is drawn from the stream and         *)
(* downloaded (ok tells whether the download succeeds within its retries); *)
(* without it the original image is copied.  onNext is what follows        *)
(* gifIterator.next(): `if (next.done) throw new Error("Ran out of GIFs")`.*)
(***************************************************************************)
onNextFallsBack(done) == IF done THEN "copy" ELSE "download"

onNext(done) == IF done THEN "throw" ELSE "download"

PmMediaStep(ok) ==
    /\ pmPc = "media"
    /\ PmOnly
    /\ LET metadata == pmMeta[pmI + 1]
           gifName  == [name |-> tokenId(pmI), ext |-> "gif"]
           exists   == [dir |-> StatDir(pmVersion), name |-> tokenId(pmI), ext |-> "gif"]
                          \in pmMedia
           newName  == [name |-> tokenId(pmI), ext |-> metadata.image.ext]
           branch   == IF ~pmGif THEN "copy"
                       ELSE IF exists THEN "skip"
                       ELSE onNext(pmGifsLeft = 0)
       IN  IF /\ pmVersion = "part_002"
              /\ metadata.events.present
              /\ metadata.events.dates = <<>>
           THEN /\ pmPc' = "threw"
                /\ pmErr' = "reduce"
                /\ UNCHANGED <<pmMeta, pmGifsLeft, pmMedia, pmDownloaded>>
           ELSE IF branch = "copy"
           THEN /\ pmMeta' = [pmMeta EXCEPT ![pmI + 1].image = newName]
                /\ pmMedia' = pmMedia \cup
                       {[dir |-> WriteDir(pmVersion), name |-> newName.name, ext |-> newName.ext]}
                /\ pmPc' = "json"
                /\ UNCHANGED <<pmGifsLeft, pmDownloaded, pmErr>>
           ELSE IF branch = "skip"
           THEN /\ pmMeta' = IF pmVersion = "part_002" THEN pmMeta
                             ELSE [pmMeta EXCEPT ![pmI + 1].image = gifName]
                /\ pmPc' = "json"
                /\ UNCHANGED <<pmGifsLeft, pmMedia, pmDownloaded, pmErr>>
           ELSE IF branch = "throw"
           THEN /\ pmPc' = "threw"
                /\ pmErr' = "gifs"
                /\ UNCHANGED <<pmMeta, pmGifsLeft, pmMedia, pmDownloaded>>
           ELSE IF ~ok
           THEN /\ pmPc' = "threw"
                /\ pmErr' = "download"
                /\ pmGifsLeft' = pmGifsLeft - 1
                /\ pmDownloaded' = pmDownloaded \cup {tokenId(pmI)}
                /\ UNCHANGED <<pmMeta, pmMedia>>
           ELSE /\ pmGifsLeft' = pmGifsLeft - 1
                /\ pmDownloaded' = pmDownloaded \cup {tokenId(pmI)}
                /\ pmMedia' = pmMedia \cup {GifFile(pmVersion, tokenId(pmI))}
                /\ pmMeta' = [pmMeta EXCEPT ![pmI + 1].image = gifName]
                /\ pmPc' = "json"
                /\ UNCHANGED pmErr
    /\ UNCHANGED <<pmVersion, pmGif, pmInput, pmI, pmOut, pmPre, pmGifTotal, pmRun,
                   pmFirst>>

(***************************************************************************)
(* The rest of the turn: part_002 sets metadata.id; <tokenId>.json is      *)
(* written; i++.                                                           *)
(***************************************************************************)
PmWriteJson ==
    /\ pmPc = "json"
    /\ PmOnly
    /\ LET metadata == IF pmVersion = "part_002"
                       THEN [pmMeta[pmI + 1] EXCEPT !.id = tokenId(pmI)]
                       ELSE pmMeta[pmI + 1]
       IN  /\ pmMeta' = [pmMeta EXCEPT ![pmI + 1] = metadata]
           /\ pmOut' = [pmOut EXCEPT ![tokenId(pmI)] = metadata]
    /\ pmI' = pmI + 1
    /\ pmPc' = IF pmI + 1 < Len(pmMeta) THEN "media" ELSE "done"
    /\ UNCHANGED <<pmVersion, pmGif, pmInput, pmGifsLeft, pmMedia, pmPre, pmDownloaded,
                   pmGifTotal, pmRun, pmFirst, pmErr>>

(***************************************************************************)
(* The command is run again on the same arguments once the first run has   *)
(* completed: the same inDir, the outDir as the first run left it, and a   *)
(* placeholder stream that starts over.                                    *)
(***************************************************************************)
PmRunAgain ==
    /\ pmPc = "done"
    /\ pmRun = 1
    /\ PmOnly
    /\ pmRun' = 2
    /\ pmPc' = "read"
    /\ pmI' = 0
    /\ pmFirst' = pmOut
    /\ pmOut' = [t \in 0..MaxRecords |-> NoFile]
    /\ pmPre' = pmMedia
    /\ pmDownloaded' = {}
    /\ pmGifsLeft' = pmGifTotal
    /\ UNCHANGED <<pmVersion, pmGif, pmInput, pmMeta, pmMedia, pmGifTotal, pmErr>>

Written == {t \in 0..MaxRecords : pmOut[t] # NoFile}
InputFiles == {pmInput[k].file : k \in 1..Len(pmInput)}

(***************************************************************************)
(* C10: after a run over N records that completed without error, the JSON  *)
(* files written are exactly 1.json .. N.json, no two of them come from    *)
(* the same input record, and every input record has produced one.         *)
(***************************************************************************)
C10_IdsBijective ==
    pmPc = "done" =>
        /\ Written = 1..Len(pmInput)
        /\ \A t, u \in Written : t # u => pmOut[t].file # pmOut[u].file
        /\ {pmOut[t].file : t \in Written} = InputFiles
        /\ pmVersion = "part_002" => \A t \in Written : pmOut[t].id = t

C10_Witness ==
    /\ pmPc = "done"
    /\ Len(pmInput) = 3
    /\ pmInput[1].file = 3
    /\ Written = 1..3

(***************************************************************************)
(* The provenance timestamp of a record: the least created_date of its     *)
(* events, or of its owners when it has no events.                         *)
(***************************************************************************)
HasEvents(rec) == rec.events.present /\ rec.events.dates # <<>>
HasProvenance(rec) == HasEvents(rec) \/ rec.owners # <<>>
provenance(rec) ==
    IF HasEvents(rec) THEN reduce(rec.events.dates) ELSE reduce(rec.owners)

(***************************************************************************)
(* C11: token ids follow the provenance order, whatever the file names and *)
(* the enumeration order: of two records written, the one with the smaller *)
(* provenance timestamp has the smaller token id.                          *)
(***************************************************************************)
C11_IdsByProvenance ==
    \A t, u \in Written :
        /\ HasProvenance(pmOut[t])
        /\ HasProvenance(pmOut[u])
        /\ provenance(pmOut[t]) < provenance(pmOut[u])
        => t < u

(***************************************************************************)
(* C12: with media substitution, a token whose media file an earlier run   *)
(* already wrote costs no draw from the stream and no download; a run over *)
(* a fully populated output directory downloads nothing.                   *)
(***************************************************************************)
C12_NoDownloadOfExistingMedia ==
    pmGif => \A t \in 1..MaxRecords :
                 GifFile(pmVersion, t) \in pmPre => t \notin pmDownloaded

(***************************************************************************)
(* C13: with media substitution, a second run over the output the first    *)
(* run populated writes, for every token id, the JSON content the first    *)
(* run wrote.                                                              *)
(***************************************************************************)
C13_SecondRunSameJson ==
    pmGif /\ pmRun = 2 => \A t \in Written : pmOut[t] = pmFirst[t]

C13_Witness ==
    /\ pmGif
    /\ pmRun = 2
    /\ pmPc = "done"
    /\ Written = 1..2
    /\ pmVersion = "part_002"
    /\ pmOut[2].image.ext = "gif"

(***************************************************************************)
(* C14: a record with no events and no owners (the lists empty or absent)  *)
(* does not make the run fail: no run ends on the TypeError that reduce    *)
(* throws on an empty list, in the sort or in the loop.                    *)
(***************************************************************************)
NoDates(rec) == ~HasProvenance(rec)

C14_EmptyRecordTolerated ==
    (\E k \in 1..Len(pmInput) : NoDates(pmInput[k])) => pmErr \notin {"sort", "reduce"}

(***************************************************************************)
(* C15: with media substitution the run never falls back to the original   *)
(* image: it writes no media but placeholders, every JSON it writes is of  *)
(* a token whose placeholder is in outDir, and when the stream ends while  *)
(* token i needs media the run aborts with no JSON and no media written    *)
(* for token i or a later one, the JSON files of tokens 1 .. i-1 remaining.*)
(***************************************************************************)
HasGif(t) == \E f \in pmMedia : f.name = t /\ f.ext = "gif"

C15_AbortsWhenStreamEnds ==
    pmGif =>
        /\ \A f \in pmMedia : f.ext = "gif"
        /\ \A t \in Written : HasGif(t)
        /\ pmErr = "gifs" =>
              /\ pmPc = "threw"
              /\ \A t \in tokenId(pmI)..MaxRecords :
                    /\ pmOut[t] = NoFile
                    /\ \A f \in pmMedia \ pmPre : f.name # t
              /\ \A t \in 1..pmI : pmOut[t] # NoFile /\ HasGif(t)

C15_Witness ==
    /\ pmGif
    /\ pmErr = "gifs"
    /\ pmI = 2
    /\ pmDownloaded = {1, 2}
    /\ Len(pmInput) = 3

(***************************************************************************)
(* C16: with media substitution every JSON record written for token i has  *)
(* image = "<i>.gif", whether the placeholder was downloaded in this run   *)
(* or the download was skipped because the file existed.                   *)
(***************************************************************************)
C16_ImageIsGifName ==
    pmGif => \A t \in Written : pmOut[t].image = [name |-> t, ext |-> "gif"]

(***************************************************************************)
(* The requests issued so far for the page: the attempts that have thrown  *)
(* and the one that is pending or has resolved.                            *)
(***************************************************************************)
Issued == rWaited + rGeneric + (IF rPc \in {"request", "resolved"} THEN 1 ELSE 0)

(***************************************************************************)
(* C17: a page request (listing, events or owners) is issued at most       *)
(* MaxAttempts times, whatever the answers are, and the bound is the same  *)
(* for the three kinds.                                                    *)
(***************************************************************************)
C17_AtMostMaxAttempts == Issued <= MaxAttempts

(***************************************************************************)
(* C18: a 4xx answer other than 429 to a listing, events, owners or image  *)
(* request is surfaced at once as a failure: the request is not attempted  *)
(* again and the answer is not used as a successful page.                  *)
(***************************************************************************)
C18_ClientErrorSurfaced ==
    rLast = "404" => rPc \notin {"resolved", "backoff", "request"}

(***************************************************************************)
(* C19: when a harvest run is interrupted, at whatever point, every token  *)
(* id has both its media file and its JSON file in storage, or neither.    *)
(***************************************************************************)
C19_NoTornRecord ==
    mainPc = "interrupted" =>
        \A a \in Assets : imageFile[a] <=> jsonFile[a] # NoFile

(***************************************************************************)
(* The next cursor of the last response received before request i.         *)
(***************************************************************************)
RECURSIVE PrecedingNext(_)
PrecedingNext(i) ==
    IF i = 1 THEN NoCursor
    ELSE IF pgLog[i - 1].ok THEN pgLog[i - 1].next
    ELSE PrecedingNext(i - 1)

Responded == {i \in 1..Len(pgLog) : pgLog[i].ok}

(***************************************************************************)
(* C20: the first request carries no cursor; every later request carries   *)
(* the next cursor of the response that precedes it; a request is issued   *)
(* only when every earlier one has been answered; and the traversal stops  *)
(* at the first response without next cursor.                              *)
(***************************************************************************)
C20_CursorChain ==
    /\ \A i \in 1..Len(pgLog) : pgLog[i].cursor = PrecedingNext(i)
    /\ pgPc = "fetch" => pgNext = PrecedingNext(Len(pgLog) + 1)
    /\ \A i \in Responded : pgLog[i].next = NoCursor => i = Len(pgLog) /\ pgPc = "done"
    /\ pgPc = "done" => Len(pgLog) \in Responded /\ pgLog[Len(pgLog)].next = NoCursor

C20_Witness ==
    /\ pgPc = "done"
    /\ Cardinality(Responded) = 3
    /\ \E i \in 1..Len(pgLog) : ~pgLog[i].ok /\ pgLog[i].cursor = 1

(***************************************************************************)
(* SpecMint: lines 93-95 and 140-179 of part_002 on one record.  A         *)
(* created_date is a time stamp in 1..MaxStamp; a description is the list  *)
(* of its paragraphs; attributes may be absent from the record.            *)
(***************************************************************************)
NoDate == 0

Stamps == 1..MaxStamp

DateLists == {<<>>} \cup [1..1 -> Stamps] \cup [1..2 -> Stamps]

(***************************************************************************)
(* creationDate?.toLocaleDateString("en-US", {year, month, day}): the day  *)
(* of the time stamp, without the time of day (two stamps a day).          *)
(***************************************************************************)
toLocaleDateString(stamp) == [day |-> (stamp + 1) \div 2]

toISOString(stamp) == [iso |-> stamp]

(***************************************************************************)
(* metadata.attributes?.push(item): nothing when attributes is undefined.  *)
(***************************************************************************)
push(attributes, item) ==
    IF attributes.present
    THEN [attributes EXCEPT !.list = Append(@, item)]
    ELSE attributes

MintSentence(locale) == [sentence |-> "originally created on", date |-> locale]

MintAttribute(locale) == [trait_type |-> "Original Mint Date", value |-> locale]

DcIdle ==
    /\ dcPc = "idle"
    /\ dcHunnys = FALSE
    /\ dcMint = FALSE
    /\ dcIn = <<>>
    /\ dcMeta = <<>>
    /\ dcOldest = NoDate

DcInit ==
    /\ dcPc = "oldest"
    /\ dcHunnys \in BOOLEAN
    /\ dcMint \in BOOLEAN
    /\ \E present \in BOOLEAN, dates \in DateLists, ows \in {<<>>, <<1>>},
          classic \in BOOLEAN, attrs \in BOOLEAN :
          /\ present \/ dates = <<>>
          /\ dcIn = [classic     |-> classic,
                     description |-> <<"text">>,
                     attributes  |-> [present |-> attrs, list |-> <<>>],
                     events      |-> Dated(present, dates),
                     owners      |-> ows,
                     original_creation_date |-> NoDate,
                     id          |-> 0]
    /\ dcMeta = dcIn
    /\ dcOldest = NoDate

(***************************************************************************)
(* const oldestEvent = metadata.events?.reduce(oldestOwnerReducer).        *)
(***************************************************************************)
DcOldest ==
    /\ dcPc = "oldest"
    /\ DcOnly
    /\ IF ~dcMeta.events.present
       THEN dcPc' = "hunnys" /\ dcOldest' = NoDate
       ELSE IF dcMeta.events.dates = <<>>
       THEN dcPc' = "threw" /\ dcOldest' = NoDate
       ELSE dcPc' = "hunnys" /\ dcOldest' = reduce(dcMeta.events.dates)
    /\ UNCHANGED <<dcHunnys, dcMint, dcIn, dcMeta>>

(***************************************************************************)
(* if (hunnys): the attribute Type, Classic or Named.                      *)
(***************************************************************************)
DcHunnys ==
    /\ dcPc = "hunnys"
    /\ DcOnly
    /\ dcMeta' =
          IF dcHunnys
          THEN [dcMeta EXCEPT !.attributes =
                   push(@, [trait_type |-> "Type",
                            value |-> IF dcMeta.classic THEN "Classic" ELSE "Named"])]
          ELSE dcMeta
    /\ dcPc' = "mint"
    /\ UNCHANGED <<dcHunnys, dcMint, dcIn, dcOldest>>

(***************************************************************************)
(* The mint date attribute, id, original_creation_date and description.    *)
(***************************************************************************)
DcMint ==
    /\ dcPc = "mint"
    /\ DcOnly
    /\ LET dated  == dcOldest # NoDate
           locale == toLocaleDateString(dcOldest)
       IN  dcMeta' =
             [dcMeta EXCEPT
                !.attributes = IF dcMint /\ dated THEN push(@, MintAttribute(locale)) ELSE @,
                !.id = 1,
                !.original_creation_date = IF dated THEN toISOString(dcOldest) ELSE NoDate,
                !.description = IF dated THEN Append(@, MintSentence(locale)) ELSE @]
    /\ dcPc' = "done"
    /\ UNCHANGED <<dcHunnys, dcMint, dcIn, dcOldest>>

HasMintAttribute ==
    \E k \in 1..Len(dcMeta.attributes.list) :
        dcMeta.attributes.list[k].trait_type = "Original Mint Date"

HasMintSentence == dcMeta.description # dcIn.description

(***************************************************************************)
(* C21: the 'Original Mint Date' attribute and the provenance sentence are *)
(* added together or not at all: both exactly when mintAttribute is set    *)
(* and the record has a provenance timestamp; otherwise the description is *)
(* the input's and no such attribute is added.                             *)
(***************************************************************************)
C21_MintDateTogether ==
    dcPc = "done" =>
        /\ HasMintAttribute <=> (dcMint /\ HasProvenance(dcIn))
        /\ HasMintSentence <=> (dcMint /\ HasProvenance(dcIn))

(***************************************************************************)
(* SpecGif: randomGif.  A URL is the list of its parts, "?" opening the    *)
(* query string; item k of the search has one of four kinds of URL.        *)
(***************************************************************************)
LIMIT == 10

UrlKinds ==
    <<<<"name", ".gif">>,
      <<"name", ".gif", "?", "cid">>,
      <<"name", ".webp">>,
      <<"name", ".webp", "?", "f", ".gif">>>>

GifItem(k, shift) == [id |-> k, url |-> UrlKinds[((k + shift) % 4) + 1]]

(***************************************************************************)
(* gf.search(searchTerm, {limit: LIMIT, offset}): the items after the      *)
(* first `offset`, LIMIT at most, and the total count.                     *)
(***************************************************************************)
GiphySearch(total, shift, offset) ==
    [data       |-> [k \in 1..(Min(total, offset + LIMIT) - Min(total, offset)) |->
                        GifItem(offset + k, shift)],
     pagination |-> [total_count |-> total]]

(***************************************************************************)
(* url.split("?")[0] and s.endsWith(part).                                 *)
(***************************************************************************)
RECURSIVE splitHead(_)
splitHead(url) ==
    IF url = <<>> \/ Head(url) = "?" THEN <<>>
    ELSE <<Head(url)>> \o splitHead(Tail(url))

endsWith(s, part) == s # <<>> /\ s[Len(s)] = part

acceptsWholeUrl(item) == endsWith(item.url, ".gif")

accepts(item) == endsWith(splitHead(item.url), ".gif")

GIdle ==
    /\ gTotal = 0
    /\ gShift = 0
    /\ gPc = "idle"
    /\ gOffset = 0
    /\ gPage = <<>>
    /\ gOffsets = <<>>
    /\ gYielded = <<>>
    /\ gConsumer = "idle"

GInit ==
    /\ gTotal \in 0..MaxTotal
    /\ gShift \in 0..3
    /\ gPc = "fetch"
    /\ gOffset = 0
    /\ gPage = <<>>
    /\ gOffsets = <<>>
    /\ gYielded = <<>>
    /\ gConsumer = "drawing"

(***************************************************************************)
(* const { data: gifs, pagination } = await fetchMore(offset).             *)
(***************************************************************************)
GfFetch ==
    /\ gPc = "fetch"
    /\ GOnly
    /\ gOffsets' = Append(gOffsets, gOffset)
    /\ gPage' = GiphySearch(gTotal, gShift, gOffset).data
    /\ gPc' = "scan"
    /\ UNCHANGED <<gTotal, gShift, gOffset, gYielded, gConsumer>>

(***************************************************************************)
(* One turn of `for (const gif of gifs)`: the URL is yielded when it is    *)
(* accepted.                                                               *)
(***************************************************************************)
GfScan ==
    /\ gPc = "scan"
    /\ gPage # <<>>
    /\ GOnly
    /\ gYielded' = IF accepts(Head(gPage)) THEN Append(gYielded, Head(gPage)) ELSE gYielded
    /\ gPage' = Tail(gPage)
    /\ UNCHANGED <<gTotal, gShift, gPc, gOffset, gOffsets, gConsumer>>

(***************************************************************************)
(* After the for loop: break when total_count <= offset + LIMIT, else      *)
(* offset += LIMIT.                                                        *)
(***************************************************************************)
GfPageEnd ==
    /\ gPc = "scan"
    /\ gPage = <<>>
    /\ GOnly
    /\ IF GiphySearch(gTotal, gShift, gOffset).pagination.total_count <= gOffset + LIMIT
       THEN gPc' = "done" /\ UNCHANGED gOffset
       ELSE gPc' = "fetch" /\ gOffset' = gOffset + LIMIT
    /\ UNCHANGED <<gTotal, gShift, gPage, gOffsets, gYielded, gConsumer>>

(***************************************************************************)
(* The consumer draws from the stream that has ended: next.done, which     *)
(* prepareMetadata turns into Error("Ran out of GIFs").                    *)
(***************************************************************************)
GfDrawAfterEnd ==
    /\ gPc = "done"
    /\ gConsumer = "drawing"
    /\ GOnly
    /\ gConsumer' = onNext(TRUE)
    /\ UNCHANGED <<gTotal, gShift, gPc, gOffset, gPage, gOffsets, gYielded>>

(***************************************************************************)
(* The items the for loops have visited so far, and, of a list of items,   *)
(* those whose URL without its query string ends in ".gif".                *)
(***************************************************************************)
Visited ==
    IF gPc = "fetch" THEN Min(gTotal, gOffset)
    ELSE Min(gTotal, gOffset + LIMIT) - Len(gPage)

QueryAt(url) ==
    IF \E q \in 1..Len(url) : url[q] = "?"
    THEN CHOOSE q \in 1..Len(url) : url[q] = "?" /\ \A p \in 1..(q - 1) : url[p] # "?"
    ELSE Len(url) + 1

IsGif(item) == QueryAt(item.url) > 1 /\ item.url[QueryAt(item.url) - 1] = ".gif"

GifsAmong(n) == SelectSeq([k \in 1..n |-> GifItem(k, gShift)], IsGif)

(***************************************************************************)
(* C22: randomGif requests the offsets 0, 10, 20, ... in this order;       *)
(* yields exactly the items whose URL, query string removed, ends in       *)
(* ".gif", in server order and each once; ends after the first page with   *)
(* total_count <= offset + 10; always ends; and a consumer that draws      *)
(* after the end gets `done`, which becomes the media-exhausted error.     *)
(***************************************************************************)
C22_Safe ==
    /\ \A i \in 1..Len(gOffsets) : gOffsets[i] = (i - 1) * LIMIT
    /\ gYielded = GifsAmong(Visited)
    /\ \A i \in 1..(Len(gOffsets) - 1) : gTotal > gOffsets[i] + LIMIT
    /\ gPc = "done" => /\ gTotal <= gOffsets[Len(gOffsets)] + LIMIT
                       /\ gYielded = GifsAmong(gTotal)
    /\ gConsumer \in {"drawing", "throw"}
    /\ gConsumer = "throw" => gPc = "done"

C22_StreamOrderAndEnd == []C22_Safe /\ <>(gPc = "done" /\ gConsumer = "throw")

C22_Witness ==
    /\ gPc = "done"
    /\ gConsumer = "throw"
    /\ gOffsets = <<0, 10, 20>>
    /\ Len(gYielded) = 10

(***************************************************************************)
(* SpecUrl: the image operation.  A URL object has a hostname, a pathname  *)
(* and a search; a pathname is the list of its segments followed by the    *)
(* suffixes appended to the last of them.                                  *)
(***************************************************************************)
Segments == {"gae", "img"}

Paths == UNION {[1..n -> Segments] : n \in 1..MaxSegments}

(***************************************************************************)
(* pathname.replace("/gae/", "/"): the first segment gae that has a        *)
(* segment after it is dropped.                                            *)
(***************************************************************************)
RECURSIVE replaceGae(_)
replaceGae(segs) ==
    IF Len(segs) < 2 THEN segs
    ELSE IF Head(segs) = "gae" THEN Tail(segs)
    ELSE <<Head(segs)>> \o replaceGae(Tail(segs))

(***************************************************************************)
(* The three assignments at the head of the operation.                     *)
(***************************************************************************)
rewrite(url) ==
    [hostname |-> "lh3.googleusercontent.com",
     pathname |-> [segs   |-> replaceGae(url.pathname.segs),
                   suffix |-> Append(url.pathname.suffix, "=d")],
     search   |-> ""]

UIdle ==
    /\ uPc = "idle"
    /\ uUrl = <<>>
    /\ uFailed = 0
    /\ uLog = <<>>

(***************************************************************************)
(* new URL(asset.image_original_url ? asset.image_original_url :           *)
(* asset.image_url).                                                       *)
(***************************************************************************)
UInit ==
    /\ uPc = "rewrite"
    /\ \E h \in {"lh3.googleusercontent.com", "storage.opensea.io"},
          p \in Paths, q \in {"", "?w=500"} :
          uUrl = [hostname |-> h, pathname |-> [segs |-> p, suffix |-> <<>>], search |-> q]
    /\ uFailed = 0
    /\ uLog = <<>>

(***************************************************************************)
(* An attempt starts: imageUrl is rewritten in place and fetched.          *)
(***************************************************************************)
URewrite ==
    /\ uPc = "rewrite"
    /\ UOnly
    /\ uUrl' = rewrite(uUrl)
    /\ uLog' = Append(uLog, rewrite(uUrl))
    /\ uPc' = "fetch"
    /\ UNCHANGED uFailed

(***************************************************************************)
(* The answer: the response is returned when ok; otherwise the operation   *)
(* throws and retryWithBackoff calls it again or gives up.                 *)
(***************************************************************************)
UAnswer(resp) ==
    /\ uPc = "fetch"
    /\ UOnly
    /\ IF imageFetch(resp).throws
       THEN /\ uFailed' = uFailed + 1
            /\ uPc' = IF retryWithBackoff(uFailed + 1, MaxAttempts) = "retry"
                      THEN "rewrite" ELSE "threw"
       ELSE /\ uPc' = "resolved"
            /\ UNCHANGED uFailed
    /\ UNCHANGED <<uUrl, uLog>>

(***************************************************************************)
(* C23: every attempt of the image fetch of one asset requests the same    *)
(* URL: the rewrite applied again on a retry gives the URL of the first    *)
(* attempt.                                                                *)
(***************************************************************************)
C23_SameUrlOnRetry ==
    \A i, j \in 1..Len(uLog) : uLog[i] = uLog[j]

Init == HInit /\ PgIdle /\ RIdle /\ PmIdle /\ DcIdle /\ GIdle /\ UIdle

Next == HNext
Spec == Init /\ [][Next]_vars

InitPag == HInit /\ PgInit /\ RIdle /\ PmIdle /\ DcIdle /\ GIdle /\ UIdle

NextPag == PgNext

SpecPag == InitPag /\ [][NextPag]_vars

InitRate == HInit /\ PgIdle /\ RInit /\ PmIdle /\ DcIdle /\ GIdle /\ UIdle

NextRate ==
    \/ \E resp \in Responses, n \in 0..MaxRetryAfter : RAnswer(resp, n)
    \/ RWaitOver
    \/ RBackoffOver
    \/ RTick

SpecRate == InitRate /\ [][NextRate]_vars

InitPrep == HInit /\ PgIdle /\ RIdle /\ PmInit /\ DcIdle /\ GIdle /\ UIdle

NextPrep ==
    \/ PmRead
    \/ \E ok \in BOOLEAN : PmMediaStep(ok)
    \/ PmWriteJson
    \/ PmRunAgain

SpecPrep == InitPrep /\ [][NextPrep]_vars

InitMint == HInit /\ PgIdle /\ RIdle /\ PmIdle /\ DcInit /\ GIdle /\ UIdle

NextMint ==
    \/ DcOldest
    \/ DcHunnys
    \/ DcMint

SpecMint == InitMint /\ [][NextMint]_vars

InitGif == HInit /\ PgIdle /\ RIdle /\ PmIdle /\ DcIdle /\ GInit /\ UIdle

NextGif ==
    \/ GfFetch
    \/ GfScan
    \/ GfPageEnd
    \/ GfDrawAfterEnd

SpecGif == InitGif /\ [][NextGif]_vars /\ WF_vars(NextGif)

InitUrl == HInit /\ PgIdle /\ RIdle /\ PmIdle /\ DcIdle /\ GIdle /\ UInit

NextUrl ==
    \/ URewrite
    \/ \E resp \in Responses : UAnswer(resp)

SpecUrl == InitUrl /\ [][NextUrl]_vars
====
